---- MODULE Spec2Model ----
(***************************************************************************)
(* A model of the example components of react-course-part2-starter:       *)
(*   - the optimistic add-todo mutation (hooks/useAddTodo.ts and           *)
(*     react-query/TodoForm.tsx) over the query cache entry ["todos"];     *)
(*   - the task and auth reducers;                                         *)
(*   - the router configurations with PrivateRoutes and ErrorPage;         *)
(*   - the infinite posts query and its getNextPageParam;                  *)
(*   - the zustand stores (counter, auth) of the state-management notes;   *)
(*   - the TodoForm that writes the cache once the backend has answered;   *)
(*   - the reducer and the cache updaters over arrays with identity.       *)
(*                                                                         *)
(* The callbacks are the repository's code.  What calls them, and what the *)
(* cache does with their results, is @tanstack/react-query 4.x (the notes  *)
(* install 4.28), modelled by its behaviour:                               *)
(*   - Mutation.execute: status "loading", then onMutate, then the         *)
(*     mutationFn, then onSuccess or onError, then onSettled, then the     *)
(*     final status; the continuations are microtasks, so nothing else     *)
(*     runs between a backend answer and the callback that handles it;     *)
(*   - QueryClient.setQueryData: an updater result of undefined leaves the *)
(*     cache untouched, any other result is stored through                 *)
(*     replaceEqualDeep(previous, result) (structural sharing).            *)
(***************************************************************************)
EXTENDS Integers, Sequences, FiniteSets, TLC

\* ------------------------------------------------------------------ bounds
MaxMutations == 2
NumForms == 2
MaxCached == 1

\* ------------------------------------------------------------------ values
Forms == 1..NumForms
Mutations == 1..MaxMutations
Titles == {"a", "b"}

\* Object identity of a Todo: the mutation whose onSubmit built the object,
\* or Anon for any object that is none of those (server JSON, a copy).
Anon == 0

\* interface Todo { id, title, completed, userId } plus the identity above
Todo(r, i, t, c, u) == [ref |-> r, id |-> i, title |-> t, completed |-> c, userId |-> u]

SameFields(x, y) ==
    /\ x.id = y.id
    /\ x.title = y.title
    /\ x.completed = y.completed
    /\ x.userId = y.userId

\* Todo[] | undefined
Undefined == [defined |-> FALSE, todos |-> <<>>]
Some(list) == [defined |-> TRUE, todos |-> list]

\* the todos the backend already holds (ids 1..MaxCached), as a fetched list
\* caches them; the backend numbers the todos it saves from there on
ServerTodo(i) == Todo(Anon, i, "t", FALSE, 1)
FetchedTodos(n) == [i \in 1..n |-> ServerTodo(i)]
FirstSavedId == MaxCached + 1

VARIABLES
    cache,        \* query cache entry CACHE_KEY_TODOS
    input,        \* input[f]: ref.current.value of form f
    cur,          \* cur[f]: the mutation the form's useMutation observes, 0 if none
    nMut,         \* mutations started so far
    pc,           \* pc[m]: position of mutation m in its lifecycle
    variables,    \* variables[m]: the newTodo passed to mutate
    context,      \* context[m]: what onMutate returned
    result,       \* result[m]: savedTodo
    log,          \* log[m]: the phases mutation m has gone through
    before,       \* before[m]: the cache entry when onMutate of m was entered
    nextId        \* the id the backend gives the next saved todo

todoVars == <<cache, input, cur, nMut, pc, variables, context, result, log, before, nextId>>

VARIABLES
    now,          \* Date.now()
    taskCopy,     \* the file the app imports taskReducer from
    authCopy,     \* the file the app imports authReducer from
    tasks,        \* the state of useReducer(taskReducer, [])
    user,         \* the state of useReducer(authReducer, "")
    last,         \* the last dispatch: its action and the state it was given
    ops           \* the auth actions dispatched so far, oldest first

reducerVars == <<now, taskCopy, authCopy, tasks, user, last, ops>>

VARIABLES
    routes,       \* which version of routes.tsx the router was created from
    authUser,     \* whether useAuth() reports a user
    location,     \* the current URL, as its path segments
    view,         \* what is on screen: the rendered elements and the ErrorPage text
    routeError,   \* what useRouteError() returns
    requested     \* the last URL the user asked for, and whether a user was present

routerVars == <<routes, authUser, location, view, routeError, requested>>

VARIABLES
    numPosts,     \* how many posts the backend holds
    pages,        \* data.pages of the infinite query
    fetching,     \* "idle", or which fetch is in flight
    requests,     \* the params of every GET /posts issued so far
    failures,     \* page requests that failed
    idleClicks,   \* calls of fetchNextPage that issued no request
    queryError    \* the error the hook reports

postVars == <<numPosts, pages, fetching, requests, failures, idleClicks, queryError>>

VARIABLES
    allPages,     \* an argument list for getNextPageParam
    nextPageParam \* what getNextPageParam returned for it

paramVars == <<allPages, nextPageParam>>

VARIABLES
    authStore,    \* the state object of useAuthStore
    storeOps,     \* the calls of login and logout so far, oldest first
    counterStore, \* the state object of useCounterStore
    counterOps    \* the calls of increment and reset so far, oldest first

storeVars == <<authStore, storeOps, counterStore, counterOps>>

VARIABLES
    formCache,    \* query cache entry ["todos"], as the form without optimistic update sees it
    formInput,    \* ref.current.value of that form
    addTodo,      \* the state of its useMutation: status, variables, data, error
    formCount     \* mutations that form has started, and how many the backend has saved

formVars == <<formCache, formInput, addTodo, formCount>>

VARIABLES
    heap,         \* the arrays allocated so far: heap[a] is the contents of the array at address a
    tasksRef,     \* the array useReducer(taskReducer, []) holds as its state
    cacheRef,     \* the array the query cache holds under CACHE_KEY_TODOS, 0 for undefined
    pending,      \* the add-todo mutation in flight: its newTodo and its context
    reads,        \* every array some code has read, with the contents it had then
    heapOps       \* dispatches and mutations so far

heapVars == <<heap, tasksRef, cacheRef, pending, reads, heapOps>>

vars == <<todoVars, reducerVars, routerVars, postVars, paramVars, storeVars, formVars, heapVars>>

\* what the actions of one part of the repository leave alone
notTodos == <<reducerVars, routerVars, postVars, paramVars, storeVars, formVars, heapVars>>
notReducers == <<todoVars, routerVars, postVars, paramVars, storeVars, formVars, heapVars>>
notRouter == <<todoVars, reducerVars, postVars, paramVars, storeVars, formVars, heapVars>>
notPosts == <<todoVars, reducerVars, routerVars, paramVars, storeVars, formVars, heapVars>>
notParam == <<todoVars, reducerVars, routerVars, postVars, storeVars, formVars, heapVars>>
notStores == <<todoVars, reducerVars, routerVars, postVars, paramVars, formVars, heapVars>>
notForm == <<todoVars, reducerVars, routerVars, postVars, paramVars, storeVars, heapVars>>
notHeap == <<todoVars, reducerVars, routerVars, postVars, paramVars, storeVars, formVars>>

NoTodo == Todo(Anon, 0, "", FALSE, 0)
NoContext == [set |-> FALSE, previousTodos |-> Undefined]

\* ------------------------------------------------------- the query client
\* queryClient.getQueryData(CACHE_KEY_TODOS)
getQueryData == cache

\* replaceEqualDeep on two plain objects: the previous object when every
\* field is equal, otherwise a fresh copy carrying the new fields.
replaceEqualDeepTodo(a, b) ==
    IF SameFields(a, b) THEN a ELSE [b EXCEPT !.ref = Anon]

\* replaceEqualDeep on two arrays: index by index; an index the previous
\* array does not have takes the new element itself.
replaceEqualDeep(a, b) ==
    [i \in 1..Len(b) |->
        IF i <= Len(a) THEN replaceEqualDeepTodo(a[i], b[i]) ELSE b[i]]

\* queryClient.setQueryData(CACHE_KEY_TODOS, data) with data already computed
setQueryData(prev, data) ==
    IF ~data.defined THEN prev
    ELSE IF ~prev.defined THEN data
    ELSE Some(replaceEqualDeep(prev.todos, data.todos))

\* ------------------------------------------------------------ the updaters
\* PrependTodo putting the new todo last: (todos) => [...(todos || []), newTodo]
PrependTodo_AtEnd(newTodo, todos) ==
    Some((IF todos.defined THEN todos.todos ELSE <<>>) \o <<newTodo>>)

\* (todos) => [newTodo, ...(todos || [])]
PrependTodo(newTodo, todos) ==
    Some(<<newTodo>> \o (IF todos.defined THEN todos.todos ELSE <<>>))

\* (todos) => todos?.map((todo) => (todo === newTodo ? savedTodo : todo))
ReplaceTodo(savedTodo, newTodo, todos) ==
    IF ~todos.defined THEN Undefined
    ELSE Some([i \in 1..Len(todos.todos) |->
                 IF todos.todos[i].ref = newTodo.ref /\ newTodo.ref # Anon
                 THEN savedTodo ELSE todos.todos[i]])

\* ----------------------------------------------------------------- render
\* isLoading that is true only until the request has been sent
isLoading_UntilSent(f) ==
    /\ cur[f] # 0
    /\ pc[cur[f]] = "loading"

\* addTodo.isLoading of form f
isLoading(f) ==
    /\ cur[f] # 0
    /\ pc[cur[f]] \in {"loading", "sent", "resolved", "rejected"}

\* <button disabled={addTodo.isLoading}>{addTodo.isLoading ? "...loading" : "Add"}</button>
Button(f) ==
    [disabled |-> isLoading(f), label |-> IF isLoading(f) THEN "...loading" ELSE "Add"]

\* a callback of some mutation is due as a microtask
Busy == \E m \in Mutations : pc[m] \in {"loading", "resolved", "rejected"}

\* ------------------------------------------------------------------- Init
InitTodos ==
    /\ cache \in {Undefined} \cup {Some(FetchedTodos(n)) : n \in 0..MaxCached}
    /\ input = [f \in Forms |-> ""]
    /\ cur = [f \in Forms |-> 0]
    /\ nMut = 0
    /\ pc = [m \in Mutations |-> "idle"]
    /\ variables = [m \in Mutations |-> NoTodo]
    /\ context = [m \in Mutations |-> NoContext]
    /\ result = [m \in Mutations |-> NoTodo]
    /\ log = [m \in Mutations |-> <<>>]
    /\ before = [m \in Mutations |-> Undefined]
    /\ nextId = FirstSavedId

\* ---------------------------------------------------------------- actions
\* the user types a title into the input of form f
Type(f, t) ==
    /\ ~Busy
    /\ input[f] # t
    /\ input' = [input EXCEPT ![f] = t]
    /\ UNCHANGED <<cache, cur, nMut, pc, variables, context, result, log, before, nextId>>
    /\ UNCHANGED notTodos

\* onSubmit of form f: mutate({ id: 0, completed: true, title, userId: 1 })
Submit(f) ==
    /\ ~Busy
    /\ ~isLoading(f)
    /\ input[f] # ""
    /\ nMut < MaxMutations
    /\ LET m == nMut + 1 IN
        /\ nMut' = m
        /\ cur' = [cur EXCEPT ![f] = m]
        /\ variables' = [variables EXCEPT ![m] = Todo(m, 0, input[f], TRUE, 1)]
        /\ pc' = [pc EXCEPT ![m] = "loading"]
    /\ UNCHANGED <<cache, input, context, result, log, before, nextId>>
    /\ UNCHANGED notTodos

\* the form whose useMutation runs mutation m
FormOf(m) == CHOOSE f \in Forms : cur[f] = m

\* onMutate reading previousTodos after its setQueryData
OnMutate_SnapshotAfterWrite(m) ==
    /\ pc[m] = "loading"
    /\ cache' = setQueryData(cache, PrependTodo(variables[m], cache))
    /\ context' = [context EXCEPT ![m] = [set |-> TRUE, previousTodos |-> cache']]
    /\ input' = [input EXCEPT ![FormOf(m)] = ""]
    /\ log' = [log EXCEPT ![m] = @ \o <<"write", "snapshot", "onAdd", "request">>]
    /\ before' = [before EXCEPT ![m] = cache]
    /\ pc' = [pc EXCEPT ![m] = "sent"]
    /\ UNCHANGED <<cur, nMut, variables, result, nextId>>
    /\ UNCHANGED notTodos

\* onMutate
OnMutate(m) ==
    /\ pc[m] = "loading"
    /\ LET newTodo == variables[m]
           previousTodos == getQueryData
       IN /\ cache' = setQueryData(cache, PrependTodo(newTodo, cache))
          /\ context' = [context EXCEPT ![m] = [set |-> TRUE, previousTodos |-> previousTodos]]
    /\ input' = [input EXCEPT ![FormOf(m)] = ""]
    /\ log' = [log EXCEPT ![m] = @ \o <<"snapshot", "write", "onAdd", "request">>]
    /\ before' = [before EXCEPT ![m] = cache]
    /\ pc' = [pc EXCEPT ![m] = "sent"]
    /\ UNCHANGED <<cur, nMut, variables, result, nextId>>
    /\ UNCHANGED notTodos

\* the backend saves the todo and answers with it
Resolve(m) ==
    /\ ~Busy
    /\ pc[m] = "sent"
    /\ result' = [result EXCEPT ![m] = [variables[m] EXCEPT !.ref = Anon, !.id = nextId]]
    /\ nextId' = nextId + 1
    /\ log' = [log EXCEPT ![m] = Append(@, "saved")]
    /\ pc' = [pc EXCEPT ![m] = "resolved"]
    /\ UNCHANGED <<cache, input, cur, nMut, variables, context, before>>
    /\ UNCHANGED notTodos

\* the request fails
Reject(m) ==
    /\ ~Busy
    /\ pc[m] = "sent"
    /\ log' = [log EXCEPT ![m] = Append(@, "failed")]
    /\ pc' = [pc EXCEPT ![m] = "rejected"]
    /\ UNCHANGED <<cache, input, cur, nMut, variables, context, result, before, nextId>>
    /\ UNCHANGED notTodos

\* onSuccess, then onSettled
OnSuccess(m) ==
    /\ pc[m] = "resolved"
    /\ cache' = setQueryData(cache, ReplaceTodo(result[m], variables[m], cache))
    /\ log' = [log EXCEPT ![m] = @ \o <<"reconcile", "settled">>]
    /\ pc' = [pc EXCEPT ![m] = "success"]
    /\ UNCHANGED <<input, cur, nMut, variables, context, result, before, nextId>>
    /\ UNCHANGED notTodos

\* onError, then onSettled
OnError(m) ==
    /\ pc[m] = "rejected"
    /\ IF ~context[m].set
       THEN /\ cache' = cache
            /\ log' = [log EXCEPT ![m] = Append(@, "settled")]
       ELSE /\ cache' = setQueryData(cache, context[m].previousTodos)
            /\ log' = [log EXCEPT ![m] = @ \o <<"restore", "settled">>]
    /\ pc' = [pc EXCEPT ![m] = "error"]
    /\ UNCHANGED <<input, cur, nMut, variables, context, result, before, nextId>>
    /\ UNCHANGED notTodos

NextTodos ==
    \/ \E f \in Forms, t \in Titles \cup {""} : Type(f, t)
    \/ \E f \in Forms : Submit(f)
    \/ \E m \in Mutations : OnMutate(m)
    \/ \E m \in Mutations : Resolve(m)
    \/ \E m \in Mutations : Reject(m)
    \/ \E m \in Mutations : OnSuccess(m)
    \/ \E m \in Mutations : OnError(m)

\* ============================================ the form without optimistic update
MaxFormMutations == 3

ErrorMessages == {"Network Error", "Request failed with status code 500"}

\* the updater of onSuccess dropping the cached todos: () => [savedTodos]
PrependSaved_Alone(savedTodos, todos) == Some(<<savedTodos>>)

\* (todos) => [savedTodos, ...(todos || [])]
PrependSaved(savedTodos, todos) ==
    Some(<<savedTodos>> \o (IF todos.defined THEN todos.todos ELSE <<>>))

\* useMutation before any mutate
IdleMutation == [status |-> "idle", variables |-> NoTodo, data |-> NoTodo, error |-> ""]

\* {addTodo.error && <div className="alert alert-danger">{addTodo.error?.message}</div>}
Alert == addTodo.error

\* the Add button: disabled={addTodo.isLoading}
AddDisabled == addTodo.status = "loading"

InitForm ==
    /\ formCache \in {Undefined} \cup {Some(FetchedTodos(n)) : n \in 0..MaxCached}
    /\ formInput = ""
    /\ addTodo = IdleMutation
    /\ formCount = [started |-> 0, saved |-> 0]

\* the user types a title into the input
FormType(t) ==
    /\ formInput # t
    /\ formInput' = t
    /\ UNCHANGED <<formCache, addTodo, formCount>>
    /\ UNCHANGED notForm

\* onSubmit: mutate({ id: 0, completed: true, title, userId: 1 }); the
\* mutation starts with status "loading" and no error
FormSubmit ==
    /\ ~AddDisabled
    /\ formInput # ""
    /\ formCount.started < MaxFormMutations
    /\ addTodo' = [status |-> "loading", variables |-> Todo(Anon, 0, formInput, TRUE, 1),
                   data |-> NoTodo, error |-> ""]
    /\ formCount' = [formCount EXCEPT !.started = @ + 1]
    /\ UNCHANGED <<formCache, formInput>>
    /\ UNCHANGED notForm

\* the backend answers with the saved todo: onSuccess, then onSettled
FormOnSuccess ==
    /\ addTodo.status = "loading"
    /\ LET savedTodos == [addTodo.variables EXCEPT !.id = FirstSavedId + formCount.saved]
       IN  /\ formCache' = setQueryData(formCache, PrependSaved(savedTodos, formCache))
           /\ addTodo' = [addTodo EXCEPT !.status = "success", !.data = savedTodos]
    /\ formInput' = ""
    /\ formCount' = [formCount EXCEPT !.saved = @ + 1]
    /\ UNCHANGED notForm

\* the request fails: onError logs the message, then onSettled
FormOnError(message) ==
    /\ addTodo.status = "loading"
    /\ addTodo' = [addTodo EXCEPT !.status = "error", !.error = message]
    /\ UNCHANGED <<formCache, formInput, formCount>>
    /\ UNCHANGED notForm

NextForm ==
    \/ \E t \in Titles \cup {""} : FormType(t)
    \/ FormSubmit
    \/ FormOnSuccess
    \/ \E message \in ErrorMessages : FormOnError(message)

\* ================================================================ reducers
MaxNow == 2
MaxTasks == 2
MaxOps == 3

UserNames == {"Mostafa", "John"}

\* Task[] | undefined
UndefinedTasks == [defined |-> FALSE, list |-> <<>>]
SomeTasks(list) == [defined |-> TRUE, list |-> list]

\* the files that hold a copy of each reducer
TaskCopies == {"task/TasksProvider.tsx", "reducers/taskReducer.ts"}
AuthCopies == {"auth/AuthProvider.tsx", "reducers/authReducer.ts", "reducers/taskReducer.ts"}

\* { id: Date.now(), title: "Task " + Date.now() }; the title is kept as its stamp
Task(stamp) == [id |-> stamp, title |-> stamp]

TaskActions ==
    {[type |-> "ADD", task |-> Task(now), taskId |-> 0]}
    \cup {[type |-> "Delete", task |-> Task(0), taskId |-> i] : i \in 1..MaxNow}
    \cup {[type |-> "OTHER", task |-> Task(0), taskId |-> 0]}

AuthActions ==
    {[type |-> "LOGIN", userName |-> n] : n \in UserNames}
    \cup {[type |-> "LOGOUT", userName |-> ""], [type |-> "OTHER", userName |-> ""]}

\* a filter that drops only the first task with the id
FilterTasks_FirstOnly(list, taskId) ==
    LET hits == {i \in 1..Len(list) : list[i].id = taskId}
        first == CHOOSE i \in hits : \A j \in hits : i <= j
    IN  IF hits = {} THEN list
        ELSE [i \in 1..(Len(list) - 1) |-> IF i < first THEN list[i] ELSE list[i + 1]]

\* tasks.filter((task) => task.id !== action.taskId)
FilterTasks(list, taskId) == SelectSeq(list, LAMBDA task : task.id # taskId)

\* taskReducer of task/TasksProvider.tsx: ADD, Delete, default
taskReducerProvider(list, action) ==
    CASE action.type = "ADD" -> SomeTasks(Append(list, action.task))
      [] action.type = "Delete" -> SomeTasks(FilterTasks(list, action.taskId))
      [] OTHER -> SomeTasks(list)

\* taskReducer whose Delete keeps the tasks with the id and drops the others
taskReducer_DeleteOthers(list, action) ==
    CASE action.type = "ADD" -> SomeTasks(Append(list, action.task))
      [] action.type = "Delete" ->
           SomeTasks(SelectSeq(list, LAMBDA task : task.id = action.taskId))
      [] OTHER -> UndefinedTasks

\* taskReducer of reducers/taskReducer.ts: ADD, Delete, and a `return tasks`
\* that follows the return of case "Delete" inside the switch, with no
\* default label: no other action type reaches it, and the function ends
\* without a return value
taskReducer(list, action) ==
    CASE action.type = "ADD" -> SomeTasks(Append(list, action.task))
      [] action.type = "Delete" -> SomeTasks(FilterTasks(list, action.taskId))
      [] OTHER -> UndefinedTasks

taskReducerOf(c, list, action) ==
    IF c = "task/TasksProvider.tsx" THEN taskReducerProvider(list, action)
    ELSE taskReducer(list, action)

\* authReducer whose LOGOUT keeps the user
authReducerProvider_LogoutKeeps(state, action) ==
    CASE action.type = "LOGIN" -> action.userName
      [] action.type = "LOGOUT" -> state
      [] OTHER -> state

\* authReducer of auth/AuthProvider.tsx
authReducerProvider(state, action) ==
    CASE action.type = "LOGIN" -> action.userName
      [] action.type = "LOGOUT" -> ""
      [] OTHER -> state

\* authReducer of reducers/authReducer.ts
authReducer(state, action) ==
    CASE action.type = "LOGIN" -> action.userName
      [] action.type = "LOGOUT" -> ""
      [] OTHER -> state

\* the authReducer that follows taskReducer in reducers/taskReducer.ts
authReducerInTaskFile(state, action) ==
    CASE action.type = "LOGIN" -> action.userName
      [] action.type = "LOGOUT" -> ""
      [] OTHER -> state

authReducerOf(c, state, action) ==
    CASE c = "auth/AuthProvider.tsx" -> authReducerProvider(state, action)
      [] c = "reducers/authReducer.ts" -> authReducer(state, action)
      [] OTHER -> authReducerInTaskFile(state, action)

NoDispatch == [kind |-> "", type |-> "", taskId |-> 0, prevTasks |-> <<>>, prevUser |-> ""]

\* useReducer(taskReducer, []) and useReducer(authReducer, ""), in each
\* version of the app
InitReducers ==
    /\ now = 1
    /\ taskCopy \in TaskCopies
    /\ authCopy \in AuthCopies
    /\ tasks = SomeTasks(<<>>)
    /\ user = ""
    /\ last = NoDispatch
    /\ ops = <<>>

\* the clock moves on
Tick ==
    /\ now < MaxNow
    /\ now' = now + 1
    /\ UNCHANGED <<taskCopy, authCopy, tasks, user, last, ops>>
    /\ UNCHANGED notReducers

\* dispatch(action) on the tasks state
DispatchTask(action) ==
    /\ tasks.defined
    /\ action.type = "ADD" => Len(tasks.list) < MaxTasks
    /\ tasks' = taskReducerOf(taskCopy, tasks.list, action)
    /\ last' = [kind |-> "task", type |-> action.type, taskId |-> action.taskId,
                prevTasks |-> tasks.list, prevUser |-> ""]
    /\ UNCHANGED <<now, taskCopy, authCopy, user, ops>>
    /\ UNCHANGED notReducers

\* dispatch(action) on the auth state
DispatchAuth(action) ==
    /\ Len(ops) < MaxOps
    /\ user' = authReducerOf(authCopy, user, action)
    /\ ops' = Append(ops, action)
    /\ last' = [kind |-> "auth", type |-> action.type, taskId |-> 0,
                prevTasks |-> <<>>, prevUser |-> user]
    /\ UNCHANGED <<now, taskCopy, authCopy, tasks>>
    /\ UNCHANGED notReducers

NextReducers ==
    \/ Tick
    \/ \E action \in TaskActions : DispatchTask(action)
    \/ \E action \in AuthActions : DispatchAuth(action)

\* ===================================================== arrays as objects
\* The reducer and the cache updaters once more, with every array an object
\* on the heap: a function takes and returns addresses, and either allocates
\* the array it returns or returns one it was given.
MaxHeapOps == 4

NoArray == 0

\* a new array with these contents: the heap with it, and its address
Alloc(h, contents) == [heap |-> Append(h, contents), ref |-> Len(h) + 1]

\* Todo[] | undefined at an address
ValueAt(h, ref) == IF ref = NoArray THEN Undefined ELSE Some(h[ref])

\* taskReducer adding with tasks.push(action.task) and returning tasks
taskReducerRef_Push(h, ref, action) ==
    CASE action.type = "ADD" ->
           [heap |-> [h EXCEPT ![ref] = Append(@, action.task)], ref |-> ref]
      [] action.type = "Delete" -> Alloc(h, FilterTasks(h[ref], action.taskId))
      [] OTHER -> [heap |-> h, ref |-> ref]

\* taskReducer of task/TasksProvider.tsx: [...tasks, action.task] and
\* tasks.filter(...) are new arrays, default returns the array it was given
taskReducerRef(h, ref, action) ==
    CASE action.type = "ADD" -> Alloc(h, Append(h[ref], action.task))
      [] action.type = "Delete" -> Alloc(h, FilterTasks(h[ref], action.taskId))
      [] OTHER -> [heap |-> h, ref |-> ref]

\* (todos) => [newTodo, ...(todos || [])]: a new array
PrependTodoRef(h, newTodo, todosRef) ==
    Alloc(h, PrependTodo(newTodo, ValueAt(h, todosRef)).todos)

\* (todos) => todos?.map(...): a new array, or undefined
ReplaceTodoRef(h, savedTodo, newTodo, todosRef) ==
    IF todosRef = NoArray THEN [heap |-> h, ref |-> NoArray]
    ELSE Alloc(h, ReplaceTodo(savedTodo, newTodo, ValueAt(h, todosRef)).todos)

\* queryClient.setQueryData with the data at an address: undefined is
\* ignored; with nothing cached the data array itself is stored; otherwise
\* replaceEqualDeep fills a new array and returns the previous array when
\* every item is the previous one, the new array if not
setQueryDataRef(h, prevRef, dataRef) ==
    IF dataRef = NoArray THEN [heap |-> h, ref |-> prevRef]
    ELSE IF prevRef = NoArray THEN [heap |-> h, ref |-> dataRef]
    ELSE IF prevRef = dataRef THEN [heap |-> h, ref |-> prevRef]
    ELSE LET copy == replaceEqualDeep(h[prevRef], h[dataRef])
         IN  IF copy = h[prevRef] THEN [heap |-> h, ref |-> prevRef]
             ELSE Alloc(h, copy)

NoPending == [active |-> FALSE, newTodo |-> NoTodo, previousTodos |-> NoArray]

\* a read of the array at an address, kept with what it held
ReadOf(kind, h, ref) ==
    IF ref = NoArray THEN {} ELSE {[of |-> kind, ref |-> ref, contents |-> h[ref]]}

HeapTaskActions ==
    {[type |-> "ADD", task |-> Task(i), taskId |-> 0] : i \in 1..MaxTasks}
    \cup {[type |-> "Delete", task |-> Task(0), taskId |-> i] : i \in 1..MaxTasks}
    \cup {[type |-> "OTHER", task |-> Task(0), taskId |-> 0]}

\* useReducer(taskReducer, []) holds a first array; the cache holds nothing
\* or a fetched list
InitHeap ==
    /\ \E n \in 0..MaxCached :
          \/ heap = << <<>> >> /\ cacheRef = NoArray /\ n = 0
          \/ heap = << <<>>, FetchedTodos(n) >> /\ cacheRef = 2
    /\ tasksRef = 1
    /\ pending = NoPending
    /\ reads = {}
    /\ heapOps = 0

\* a component reads tasks from the context and dispatches
HeapDispatch(action) ==
    /\ heapOps < MaxHeapOps
    /\ LET r == taskReducerRef(heap, tasksRef, action)
       IN  /\ heap' = r.heap
           /\ tasksRef' = r.ref
    /\ reads' = reads \cup ReadOf("tasks", heap, tasksRef)
    /\ heapOps' = heapOps + 1
    /\ UNCHANGED <<cacheRef, pending>>
    /\ UNCHANGED notHeap

\* onMutate: previousTodos is the cached array; the updater's array is written
HeapOnMutate ==
    /\ heapOps < MaxHeapOps
    /\ ~pending.active
    /\ LET newTodo == Todo(heapOps + 1, 0, "a", TRUE, 1)
           u == PrependTodoRef(heap, newTodo, cacheRef)
           w == setQueryDataRef(u.heap, cacheRef, u.ref)
       IN  /\ heap' = w.heap
           /\ cacheRef' = w.ref
           /\ pending' = [active |-> TRUE, newTodo |-> newTodo, previousTodos |-> cacheRef]
    /\ reads' = reads \cup ReadOf("todos", heap, cacheRef)
    /\ heapOps' = heapOps + 1
    /\ UNCHANGED tasksRef
    /\ UNCHANGED notHeap

\* onSuccess: the updater maps the cached array, and its array is written
HeapOnSuccess ==
    /\ pending.active
    /\ LET savedTodo == [pending.newTodo EXCEPT !.ref = Anon, !.id = FirstSavedId + heapOps]
           u == ReplaceTodoRef(heap, savedTodo, pending.newTodo, cacheRef)
           w == setQueryDataRef(u.heap, cacheRef, u.ref)
       IN  /\ heap' = w.heap
           /\ cacheRef' = w.ref
    /\ pending' = NoPending
    /\ reads' = reads \cup ReadOf("todos", heap, cacheRef)
    /\ UNCHANGED <<tasksRef, heapOps>>
    /\ UNCHANGED notHeap

\* onError: the snapshot is written back
HeapOnError ==
    /\ pending.active
    /\ LET w == setQueryDataRef(heap, cacheRef, pending.previousTodos)
       IN  /\ heap' = w.heap
           /\ cacheRef' = w.ref
    /\ pending' = NoPending
    /\ UNCHANGED <<tasksRef, reads, heapOps>>
    /\ UNCHANGED notHeap

NextHeap ==
    \/ \E action \in HeapTaskActions : HeapDispatch(action)
    \/ HeapOnMutate
    \/ HeapOnSuccess
    \/ HeapOnError

\* ================================================================== stores
MaxStoreOps == 3
MaxCounterOps == 6

\* zustand's set replacing the state object by the partial
set_Replace(store, partial) == partial

\* zustand's set: the properties of the partial merged into the state object
set(store, partial) ==
    [k \in DOMAIN store |-> IF k \in DOMAIN partial THEN partial[k] ELSE store[k]]

\* create<AuthStore>((set) => ({ user: "", login, logout })) and
\* create<CounterStore>((set) => ({ counter: 0, increment, reset })); a
\* function property is kept as its name
InitStores ==
    /\ authStore = [user |-> "", login |-> "login", logout |-> "logout"]
    /\ storeOps = <<>>
    /\ counterStore = [counter |-> 0, increment |-> "increment", reset |-> "reset"]
    /\ counterOps = <<>>

\* login: (username) => set(() => ({ user: username }))
login(username) ==
    /\ Len(storeOps) < MaxStoreOps
    /\ authStore' = set(authStore, [user |-> username])
    /\ storeOps' = Append(storeOps, [type |-> "LOGIN", userName |-> username])
    /\ UNCHANGED <<counterStore, counterOps>>
    /\ UNCHANGED notStores

\* logout: () => set(() => ({ user: "" }))
logout ==
    /\ Len(storeOps) < MaxStoreOps
    /\ authStore' = set(authStore, [user |-> ""])
    /\ storeOps' = Append(storeOps, [type |-> "LOGOUT", userName |-> ""])
    /\ UNCHANGED <<counterStore, counterOps>>
    /\ UNCHANGED notStores

\* increment: () => set((store) => ({ counter: store.counter + 1 }))
increment ==
    /\ Len(counterOps) < MaxCounterOps
    /\ counterStore' = set(counterStore, [counter |-> counterStore.counter + 1])
    /\ counterOps' = Append(counterOps, "increment")
    /\ UNCHANGED <<authStore, storeOps>>
    /\ UNCHANGED notStores

\* reset: () => set(() => ({ counter: 0 }))
reset ==
    /\ Len(counterOps) < MaxCounterOps
    /\ counterStore' = set(counterStore, [counter |-> 0])
    /\ counterOps' = Append(counterOps, "reset")
    /\ UNCHANGED <<authStore, storeOps>>
    /\ UNCHANGED notStores

\* the auth state, held by a reducer or by the store
NextAuth ==
    \/ \E action \in AuthActions : DispatchAuth(action)
    \/ \E username \in UserNames : login(username)
    \/ logout

NextCounter ==
    \/ increment
    \/ reset

\* ============================================================= LoginStatus
\* The component rendered as the record of what the page shows: the name it
\* prints, the one link it offers, and what a click on that link sends.
MaxClicks == 6

\* LoginStatus that offers Login whatever user is
LoginStatus_AlwaysLogin(u) ==
    [text |-> "", link |-> "Login",
     onClick |-> [type |-> "LOGIN", userName |-> "Mostafa"]]

\* LoginStatus over AuthContext: `if (user)` renders the name and Logout,
\* and Login is what is left for the empty string
LoginStatus(u) ==
    IF u # ""
    THEN [text |-> u, link |-> "Logout",
          onClick |-> [type |-> "LOGOUT", userName |-> ""]]
    ELSE [text |-> "", link |-> "Login",
          onClick |-> [type |-> "LOGIN", userName |-> "Mostafa"]]

\* LoginStatus over useAuthStore: the same, with logout() and login("John")
LoginStatusOfStore(username) ==
    IF username # ""
    THEN [text |-> username, link |-> "Logout",
          onClick |-> [type |-> "LOGOUT", userName |-> ""]]
    ELSE [text |-> "", link |-> "Login",
          onClick |-> [type |-> "LOGIN", userName |-> "John"]]

\* a click on the link of LoginStatus over AuthContext: the dispatch of its
\* onClick goes through the reducer, and the component renders again
ClickLoginStatus ==
    /\ Len(ops) < MaxClicks
    /\ LET element == LoginStatus(user) IN
         /\ user' = authReducerOf(authCopy, user, element.onClick)
         /\ ops' = Append(ops, element.onClick)
         /\ last' = [kind |-> "auth", type |-> element.onClick.type, taskId |-> 0,
                     prevTasks |-> <<>>, prevUser |-> user]
    /\ UNCHANGED <<now, taskCopy, authCopy, tasks>>
    /\ UNCHANGED notReducers

\* a click on the link of LoginStatus over useAuthStore: login("John") or
\* logout() of the store
ClickLoginStatusOfStore ==
    /\ Len(storeOps) < MaxClicks
    /\ LET element == LoginStatusOfStore(authStore.user) IN
         /\ authStore' = IF element.onClick.type = "LOGIN"
                         THEN set(authStore, [user |-> element.onClick.userName])
                         ELSE set(authStore, [user |-> ""])
         /\ storeOps' = Append(storeOps, element.onClick)
    /\ UNCHANGED <<counterStore, counterOps>>
    /\ UNCHANGED notStores

NextLoginStatus ==
    \/ ClickLoginStatus
    \/ ClickLoginStatusOfStore

\* ================================================================== router
\* A URL path is the sequence of its segments: "/" is << >>, "/users/1" is
\* <<"users", "1">>.
Urls ==
    { <<>>, <<"users">>, <<"users", "1">>, <<"users", "2">>, <<"contact">>,
      <<"login">>, <<"about">>, <<"users", "1", "edit">> }

LoginUrl == <<"login">>

\* RouteObject.  abs marks a child path written with a leading "/".
Route(hasPath, abs, path, index, element, errorElement, children) ==
    [hasPath |-> hasPath, abs |-> abs, path |-> path, index |-> index,
     element |-> element, errorElement |-> errorElement, children |-> children]
PathRoute(path, element, children) == Route(TRUE, FALSE, path, FALSE, element, "", children)
IndexRoute(element) == Route(FALSE, FALSE, <<>>, TRUE, element, "", <<>>)

\* routes.tsx before nesting: four absolute paths
FlatRoutes ==
    << PathRoute(<<>>, "HomePage", <<>>),
       PathRoute(<<"users">>, "UserListPage", <<>>),
       PathRoute(<<"users", ":id">>, "UserDetailPage", <<>>),
       PathRoute(<<"contact">>, "ContactPage", <<>>) >>

\* the nested configuration without its index route
NestedRoutes_NoIndex ==
    << PathRoute(<<>>, "Layout",
         << PathRoute(<<"users">>, "UserListPage", <<>>),
            PathRoute(<<"users", ":id">>, "UserDetailPage", <<>>),
            PathRoute(<<"contact">>, "ContactPage", <<>>) >>) >>

\* src/routes.tsx: the root route with Layout and relative children
NestedRoutes ==
    << PathRoute(<<>>, "Layout",
         << IndexRoute("HomePage"),
            PathRoute(<<"users">>, "UserListPage", <<>>),
            PathRoute(<<"users", ":id">>, "UserDetailPage", <<>>),
            PathRoute(<<"contact">>, "ContactPage", <<>>) >>) >>

\* routes.tsx of "Handling Errors": errorElement on the root route
ErrorRoutes ==
    << Route(TRUE, FALSE, <<>>, FALSE, "Layout", "ErrorPage",
         << IndexRoute("HomePage"),
            PathRoute(<<"users">>, "UsersPage", << PathRoute(<<":id">>, "UserDetail", <<>>) >>),
            PathRoute(<<"contact">>, "ContactPage", <<>>) >>) >>

\* routes.tsx of "Layout Routes": the PrivateRoutes layout route next to the root
PrivateRouterRoutes ==
    << Route(TRUE, FALSE, <<>>, FALSE, "Layout", "ErrorPage",
         << IndexRoute("HomePage"),
            Route(TRUE, TRUE, <<"login">>, FALSE, "LoginPage", "", <<>>),
            PathRoute(<<"contact">>, "ContactPage", <<>>) >>),
       Route(FALSE, FALSE, <<>>, FALSE, "PrivateRoutes", "",
         << PathRoute(<<"users">>, "UsersPage", << PathRoute(<<":id">>, "UserDetail", <<>>) >>) >>) >>

RouteVersions == {"flat", "nested", "error", "private"}

RoutesOf(version) ==
    CASE version = "flat" -> FlatRoutes
      [] version = "nested" -> NestedRoutes
      [] version = "error" -> ErrorRoutes
      [] OTHER -> PrivateRouterRoutes

\* the library's flattenRoutes: every route with a path or an index becomes
\* a branch whose path is the parent's path joined with its own, and whose
\* chain lists the routes from the top down to it
RECURSIVE flattenRoutes(_, _, _)
flattenRoutes(rs, parentPath, parentChain) ==
    UNION { LET r == rs[i]
                path == IF ~r.hasPath THEN parentPath
                        ELSE IF r.abs THEN r.path
                        ELSE parentPath \o r.path
                chain == Append(parentChain,
                                [element |-> r.element, errorElement |-> r.errorElement])
            IN  (IF Len(r.children) > 0 THEN flattenRoutes(r.children, path, chain) ELSE {})
                \cup (IF r.hasPath \/ r.index
                      THEN {[path |-> path, index |-> r.index, chain |-> chain]}
                      ELSE {})
          : i \in DOMAIN rs }

IsParam(segment) == segment = ":id"

\* a branch path matches a URL segment by segment; a param takes any segment
matchPath(path, url) ==
    /\ Len(path) = Len(url)
    /\ \A i \in 1..Len(path) : IsParam(path[i]) \/ path[i] = url[i]

RECURSIVE SumScores(_)
SumScores(path) ==
    IF path = <<>> THEN 0
    ELSE (IF IsParam(path[1]) THEN 3 ELSE 10) + SumScores(Tail(path))

\* the library's computeScore: static segments outrank params
computeScore(branch) ==
    Len(branch.path) + SumScores(branch.path) + (IF branch.index THEN 2 ELSE 0)

Matching(version, url) ==
    { b \in flattenRoutes(RoutesOf(version), <<>>, <<>>) : matchPath(b.path, url) }

\* the library's matchRoutes: the best-ranked branch that matches, if any
HasMatch(version, url) == Matching(version, url) # {}
matchRoutes(version, url) ==
    CHOOSE b \in Matching(version, url) :
        \A c \in Matching(version, url) : computeScore(c) <= computeScore(b)

\* useAuth(), imported from ./hooks/useAuth
useAuth == [user |-> authUser]

\* PrivateRoutes without its check of user
PrivateRoutes_NoCheck(auth) == "Outlet"

\* PrivateRoutes: <Navigate to="/login"/> without a user, <Outlet/> with one
PrivateRoutes(auth) == IF ~auth.user THEN "Navigate" ELSE "Outlet"

\* Every other route element of these configurations renders its Outlet.
RendersOutlet(element, auth) ==
    IF element = "PrivateRoutes" THEN PrivateRoutes(auth) = "Outlet" ELSE TRUE

\* what the matched chain puts on screen: the elements from the top down,
\* cut where one of them does not render its Outlet
RECURSIVE RenderChain(_, _)
RenderChain(chain, auth) ==
    IF chain = <<>> THEN <<>>
    ELSE IF RendersOutlet(chain[1].element, auth)
         THEN <<chain[1].element>> \o RenderChain(Tail(chain), auth)
         ELSE <<chain[1].element, "Navigate">>

NoError == [kind |-> "none", status |-> 0]
NotFound == [kind |-> "ErrorResponse", status |-> 404]
Thrown == [kind |-> "Error", status |-> 0]

\* isRouteErrorResponse(error)
isRouteErrorResponse(error) == error.kind = "ErrorResponse"

\* ErrorPage: the text of its <p>
ErrorPage(error) ==
    IF isRouteErrorResponse(error) THEN "page not found" ELSE "something failed"

\* what an error boundary shows
Boundary(errorElement, error) ==
    IF errorElement = "ErrorPage"
    THEN [elements |-> <<"ErrorPage">>, text |-> ErrorPage(error)]
    ELSE [elements |-> <<"DefaultErrorElement">>, text |-> ""]

\* no route matches: the library renders the boundary of the first top-level
\* route that is an index route, has no path, or has the path "/"
ShortCircuitElement(version) ==
    LET rs == RoutesOf(version)
        ok == { i \in DOMAIN rs : rs[i].index \/ ~rs[i].hasPath \/ rs[i].path = <<>> }
    IN  IF ok = {} THEN ""
        ELSE rs[CHOOSE i \in ok : \A j \in ok : i <= j].errorElement

\* the nearest errorElement at or above position i of the matched chain
NearestBoundary(chain, i) ==
    LET at == { j \in 1..i : chain[j].errorElement # "" }
    IN  IF at = {} THEN 0 ELSE CHOOSE j \in at : \A k \in at : k <= j

\* the screen for a location
Render(version, url, auth) ==
    IF HasMatch(version, url)
    THEN [elements |-> RenderChain(matchRoutes(version, url).chain, auth), text |-> ""]
    ELSE Boundary(ShortCircuitElement(version), NotFound)

ErrorFor(version, url) == IF HasMatch(version, url) THEN NoError ELSE NotFound

Redirecting == Len(view.elements) > 0 /\ view.elements[Len(view.elements)] = "Navigate"

InitRouter ==
    /\ routes \in RouteVersions
    /\ authUser \in BOOLEAN
    /\ location = <<>>
    /\ view = Render(routes, <<>>, [user |-> authUser])
    /\ routeError = NoError
    /\ requested = [url |-> <<>>, withUser |-> authUser]

\* the user opens a URL (a link, the address bar)
Visit(url) ==
    /\ ~Redirecting
    /\ location' = url
    /\ view' = Render(routes, url, useAuth)
    /\ routeError' = ErrorFor(routes, url)
    /\ requested' = [url |-> url, withUser |-> authUser]
    /\ UNCHANGED <<routes, authUser>>
    /\ UNCHANGED notRouter

\* the effect of a rendered <Navigate to="/login"/>
Redirect ==
    /\ Redirecting
    /\ location' = LoginUrl
    /\ view' = Render(routes, LoginUrl, useAuth)
    /\ routeError' = ErrorFor(routes, LoginUrl)
    /\ UNCHANGED <<routes, authUser, requested>>
    /\ UNCHANGED notRouter

\* the i-th rendered route element throws while rendering
Throw(i) ==
    /\ ~Redirecting
    /\ routeError = NoError
    /\ i \in 1..Len(view.elements)
    /\ LET chain == matchRoutes(routes, location).chain
           j == NearestBoundary(chain, i)
       IN  view' = IF j = 0 THEN Boundary("", Thrown)
                   ELSE [elements |-> SubSeq(view.elements, 1, j - 1)
                                      \o Boundary(chain[j].errorElement, Thrown).elements,
                         text |-> Boundary(chain[j].errorElement, Thrown).text]
    /\ routeError' = Thrown
    /\ UNCHANGED <<routes, authUser, location, requested>>
    /\ UNCHANGED notRouter

\* the user logs in or out; the components that call useAuth render again
SetUser(present) ==
    /\ ~Redirecting
    /\ authUser # present
    /\ authUser' = present
    /\ view' = IF routeError = NoError
               THEN Render(routes, location, [user |-> present])
               ELSE view
    /\ UNCHANGED <<routes, location, routeError, requested>>
    /\ UNCHANGED notRouter

NextRouter ==
    \/ \E url \in Urls : Visit(url)
    \/ Redirect
    \/ \E i \in 1..3 : Throw(i)
    \/ \E present \in BOOLEAN : SetUser(present)

\* =================================================================== posts
pageSize == 10
MaxPosts == 25
MaxFailures == 2
MaxIdleClicks == 2
MaxRequests == 8

\* number | undefined
NoParam == [defined |-> FALSE, value |-> 0]
Param(n) == [defined |-> TRUE, value |-> n]

Last(s) == s[Len(s)]

\* getNextPageParam that never answers undefined
getNextPageParam_NeverUndefined(lastPage, pgs) == Param(Len(pgs) + 1)

\* getNextPageParam answering allPages.length
getNextPageParam_SamePage(lastPage, pgs) ==
    IF Len(lastPage) > 0 THEN Param(Len(pgs)) ELSE NoParam

\* getNextPageParam: (lastPage, allPages) =>
\*   lastPage.length > 0 ? allPages.length + 1 : undefined
getNextPageParam(lastPage, pgs) ==
    IF Len(lastPage) > 0 THEN Param(Len(pgs) + 1) ELSE NoParam

\* queryFn taking the page number as the number of pages to skip
queryFn_SkipPage(pageParam) ==
    LET p == IF pageParam.defined THEN pageParam.value ELSE 1
    IN  [_start |-> p * pageSize, _limit |-> pageSize]

\* queryFn: ({ pageParam = 1 }) => GET /posts with these params
queryFn(pageParam) ==
    LET p == IF pageParam.defined THEN pageParam.value ELSE 1
    IN  [_start |-> (p - 1) * pageSize, _limit |-> pageSize]

\* the backend: posts 1..numPosts, sliced by _start and _limit
Min(a, b) == IF a < b THEN a ELSE b
BackendPage(req) ==
    LET first == req._start + 1
        end == Min(req._start + req._limit, numPosts)
    IN  IF end < first THEN <<>> ELSE [i \in 1..(end - first + 1) |-> first + i - 1]

\* isFetchingNextPage that stays false
isFetchingNextPage_Never == FALSE

\* the hook's flags
isFetchingNextPage == fetching = "next"
\* isLoading: no page is cached and a fetch is in flight
postsLoading == pages = <<>> /\ fetching # "idle"

\* <button disabled={isFetchingNextPage}>{isFetchingNextPage ? "loading..." : "load more"}</button>
LoadMoreButton ==
    [disabled |-> isFetchingNextPage,
     label |-> IF isFetchingNextPage THEN "loading..." ELSE "load more"]

\* PostList: what it returns.  error is read from the hook and never used.
PostList ==
    IF postsLoading THEN "loading..."
    ELSE "list, button " \o LoadMoreButton.label

\* the component mounts and the query issues its first fetch
InitPosts ==
    /\ numPosts \in 0..MaxPosts
    /\ pages = <<>>
    /\ fetching = "first"
    /\ requests = <<queryFn(NoParam)>>
    /\ failures = 0
    /\ idleClicks = 0
    /\ queryError = FALSE

\* the backend answers the request in flight
PageArrives ==
    /\ fetching # "idle"
    /\ pages' = Append(pages, BackendPage(Last(requests)))
    /\ fetching' = "idle"
    /\ queryError' = FALSE
    /\ UNCHANGED <<numPosts, requests, failures, idleClicks>>
    /\ UNCHANGED notPosts

\* the request in flight fails
PageFails ==
    /\ fetching # "idle"
    /\ failures < MaxFailures
    /\ failures' = failures + 1
    /\ fetching' = "idle"
    /\ queryError' = TRUE
    /\ UNCHANGED <<numPosts, pages, requests, idleClicks>>
    /\ UNCHANGED notPosts

\* the library's fetchNextPage: the first page when no page is cached,
\* otherwise the page getNextPageParam names, and nothing when it names none
NextRequest ==
    IF pages = <<>> THEN Param(1) ELSE getNextPageParam(Last(pages), pages)

\* a click on "load more": onClick={() => fetchNextPage()}, disabled={isFetchingNextPage}
\* A fetch of a query that holds no data yet puts it back to status "loading"
\* and clears its error; a query that holds data keeps its error until a
\* fetch succeeds.
LoadMore ==
    /\ ~postsLoading
    /\ ~LoadMoreButton.disabled
    /\ IF NextRequest.defined
       THEN /\ Len(requests) < MaxRequests
            /\ requests' = Append(requests, queryFn(NextRequest))
            /\ fetching' = "next"
            /\ queryError' = IF pages = <<>> THEN FALSE ELSE queryError
            /\ UNCHANGED idleClicks
       ELSE /\ idleClicks < MaxIdleClicks
            /\ idleClicks' = idleClicks + 1
            /\ UNCHANGED <<requests, fetching, queryError>>
    /\ UNCHANGED <<numPosts, pages, failures>>
    /\ UNCHANGED notPosts

NextPosts ==
    \/ PageArrives
    \/ PageFails
    \/ LoadMore

\* ------------------------------------------- getNextPageParam on any input
MaxPages == 4
MaxPageLen == 2

PageOfLen(n) == [i \in 1..n |-> i]
PageLists(n) == [1..n -> {PageOfLen(k) : k \in 0..MaxPageLen}]

NotCalled == [called |-> FALSE, value |-> NoParam]

InitParam ==
    /\ allPages \in UNION {PageLists(n) : n \in 1..MaxPages}
    /\ nextPageParam = NotCalled

\* the library calls getNextPageParam(pages[pages.length - 1], pages)
CallGetNextPageParam ==
    /\ ~nextPageParam.called
    /\ nextPageParam' = [called |-> TRUE, value |-> getNextPageParam(Last(allPages), allPages)]
    /\ UNCHANGED allPages
    /\ UNCHANGED notParam

NextParam == CallGetNextPageParam

\* ========================================================== specifications
\* a subsystem a specification does not run stays in one initial state
IdleTodos == InitTodos /\ cache = Undefined
IdleReducers ==
    InitReducers /\ taskCopy = "task/TasksProvider.tsx" /\ authCopy = "auth/AuthProvider.tsx"
IdleRouter == InitRouter /\ routes = "flat" /\ ~authUser
IdlePosts == InitPosts /\ numPosts = 0
IdleParam == InitParam /\ allPages = <<PageOfLen(0)>>
IdleStores == InitStores
IdleForm == InitForm /\ formCache = Undefined
IdleHeap == InitHeap /\ cacheRef = NoArray

\* the add-todo mutations
Init == InitTodos /\ IdleReducers /\ IdleRouter /\ IdlePosts /\ IdleParam /\ IdleStores /\ IdleForm /\ IdleHeap
Next == NextTodos
Spec == Init /\ [][Next]_vars

\* the reducers
InitR == IdleTodos /\ InitReducers /\ IdleRouter /\ IdlePosts /\ IdleParam /\ IdleStores /\ IdleForm /\ IdleHeap
SpecReducers == InitR /\ [][NextReducers]_vars

\* the router
InitRt == IdleTodos /\ IdleReducers /\ InitRouter /\ IdlePosts /\ IdleParam /\ IdleStores /\ IdleForm /\ IdleHeap
SpecRouter == InitRt /\ [][NextRouter]_vars

\* the infinite posts query
InitP == IdleTodos /\ IdleReducers /\ IdleRouter /\ InitPosts /\ IdleParam /\ IdleStores /\ IdleForm /\ IdleHeap
SpecPosts == InitP /\ [][NextPosts]_vars

\* the same, with a user who keeps clicking and a backend that answers
LiveSpecPosts == SpecPosts /\ WF_vars(LoadMore) /\ WF_vars(PageArrives)

\* the auth state: the reducers and the store
InitA == IdleTodos /\ InitReducers /\ taskCopy = "task/TasksProvider.tsx" /\ IdleRouter /\ IdlePosts /\ IdleParam /\ InitStores /\ IdleForm /\ IdleHeap
SpecAuth == InitA /\ [][NextAuth]_vars

\* the auth state, driven by clicks on LoginStatus only
InitL == InitA
SpecLoginStatus == InitL /\ [][NextLoginStatus]_vars

\* the counter store
InitC == IdleTodos /\ IdleReducers /\ IdleRouter /\ IdlePosts /\ IdleParam /\ InitStores /\ IdleForm /\ IdleHeap
SpecCounter == InitC /\ [][NextCounter]_vars

\* the TodoForm that updates the cache when the backend has answered
InitF == IdleTodos /\ IdleReducers /\ IdleRouter /\ IdlePosts /\ IdleParam /\ IdleStores /\ InitForm /\ IdleHeap
SpecForm == InitF /\ [][NextForm]_vars

\* the reducer and the updaters on arrays with identity
InitH == IdleTodos /\ IdleReducers /\ IdleRouter /\ IdlePosts /\ IdleParam /\ IdleStores /\ IdleForm /\ InitHeap
SpecHeap == InitH /\ [][NextHeap]_vars

\* getNextPageParam alone
InitG == IdleTodos /\ IdleReducers /\ IdleRouter /\ IdlePosts /\ InitParam /\ IdleStores /\ IdleForm /\ IdleHeap
SpecParam == InitG /\ [][NextParam]_vars

\* ================================================================== claims
\* a cached list by value: the fields of its todos, in order
Values(c) ==
    [defined |-> c.defined,
     todos |-> [i \in 1..Len(c.todos) |-> [c.todos[i] EXCEPT !.ref = Anon]]]

IsPrefix(s, t) == Len(s) <= Len(t) /\ \A i \in 1..Len(s) : s[i] = t[i]

\* the phases of mutation m that touch the cache or the backend
Phases(m) == SelectSeq(log[m], LAMBDA e : e \notin {"onAdd", "settled"})
SuccessOrder == <<"snapshot", "write", "request", "saved", "reconcile">>
ErrorOrder == <<"snapshot", "write", "request", "failed", "restore">>

\* C1: once onError of a failed add-todo mutation has run, the cached list
\* is what it was immediately before that mutation's onMutate ran.
C1_RollbackRestoresCache ==
    [][\A m \in Mutations :
         (pc[m] = "rejected" /\ pc'[m] = "error") => Values(cache') = Values(before[m])]_vars

\* C2: every mutation reads the snapshot, then writes the optimistic todo,
\* then gets the backend's answer, then runs exactly one of reconcile (after
\* a success) and restore (after a failure); the snapshot never holds the
\* mutation's own optimistic todo.
C2_PhaseOrder ==
    \A m \in Mutations :
        /\ IsPrefix(Phases(m), SuccessOrder) \/ IsPrefix(Phases(m), ErrorOrder)
        /\ pc[m] = "success" => Phases(m) = SuccessOrder
        /\ pc[m] = "error" => Phases(m) = ErrorOrder
        /\ pc[m] \in {"resolved", "rejected"} => Len(Phases(m)) = 4
        /\ context[m].set =>
              \A i \in 1..Len(context[m].previousTodos.todos) :
                  context[m].previousTodos.todos[i].ref # m

C2_Witness ==
    \E m, k \in Mutations :
        /\ pc[m] = "error" /\ pc[k] = "success"
        /\ context[m].previousTodos.defined
        /\ Len(context[m].previousTodos.todos) > 0

\* C3: onMutate leaves the cache holding the new todo followed by the
\* previously cached todos in their order, and [newTodo] when nothing was
\* cached.
C3_OnMutatePrepends ==
    [][\A m \in Mutations :
         (pc[m] = "loading" /\ pc'[m] = "sent") =>
            Values(cache') =
              Values(Some(<<variables[m]>> \o (IF cache.defined THEN cache.todos ELSE <<>>)))]_vars

C3_Witness ==
    \E m \in Mutations :
        /\ pc[m] = "sent"
        /\ Len(before[m].todos) > 0
        /\ \E k \in Mutations : k # m /\ pc[k] = "sent" /\ ~before[k].defined

\* C4: onSuccess puts the saved todo where the optimistic todo was, and
\* leaves every other entry as it was.
C4_SuccessReplacesOptimistic ==
    [][\A m \in Mutations :
         (pc[m] = "resolved" /\ pc'[m] = "success") =>
            /\ cache'.defined
            /\ Len(cache'.todos) = Len(cache.todos)
            /\ \E i \in 1..Len(cache.todos) :
                  /\ SameFields(cache.todos[i], variables[m])
                  /\ SameFields(cache'.todos[i], result[m])
                  /\ \A j \in 1..Len(cache.todos) :
                        j # i => SameFields(cache'.todos[j], cache.todos[j])
            /\ \A i \in 1..Len(cache'.todos) : cache'.todos[i].ref # m]_vars

\* C5: a reducer given an action type it does not recognise returns the
\* state it was given.
C5_UnknownActionKeepsState ==
    last.type = "OTHER" =>
        IF last.kind = "task" THEN tasks = SomeTasks(last.prevTasks)
        ELSE user = last.prevUser

\* C6: onAdd is called only for a mutation whose backend request has
\* completed successfully.
C6_OnAddAfterSuccess ==
    \A m \in Mutations :
        (\E i \in 1..Len(log[m]) : log[m][i] = "onAdd") => pc[m] \in {"resolved", "success"}

\* the URL is served by a route under the PrivateRoutes layout route
Protected(url) ==
    /\ HasMatch(routes, url)
    /\ \E i \in 1..Len(matchRoutes(routes, url).chain) :
          matchRoutes(routes, url).chain[i].element = "PrivateRoutes"

Shows(element) == \E i \in 1..Len(view.elements) : view.elements[i] = element

\* C7: with the PrivateRoutes layout route, a visit to /users or /users/:id
\* without a user ends on /login, and the routes under PrivateRoutes are on
\* screen only while a user is present.
C7_PrivateRoutesRedirect ==
    routes = "private" =>
        /\ (Shows("UsersPage") \/ Shows("UserDetail")) => authUser
        /\ (Protected(location) /\ ~authUser /\ routeError = NoError) =>
              view.elements = <<"PrivateRoutes", "Navigate">>
        /\ (Protected(requested.url) /\ ~requested.withUser /\ ~Redirecting) =>
              location = LoginUrl

C7_Witness ==
    /\ routes = "private"
    /\ requested = [url |-> <<"users", "1">>, withUser |-> FALSE]
    /\ location = LoginUrl
    /\ Shows("LoginPage")

\* C8: in a router that sets errorElement, ErrorPage is on screen after a
\* visit no route matches and after a route component throws; it reads
\* "page not found" for a route error response and "something failed" for
\* any other error.
C8_ErrorPageShown ==
    (routes \in {"error", "private"} /\ routeError # NoError) =>
        /\ Shows("ErrorPage")
        /\ view.text = (IF routeError.kind = "ErrorResponse"
                        THEN "page not found" ELSE "something failed")

LastPageEmpty == pages # <<>> /\ Len(Last(pages)) = 0

\* an empty page has been fetched, it is the only one, and no request is out
Stopped ==
    /\ LastPageEmpty
    /\ fetching = "idle"
    /\ \A i \in 1..Len(pages) - 1 : Len(pages[i]) > 0
    /\ Len(requests) = Len(pages) + failures

\* C9: repeated "load more" reaches an empty page, and from then on no
\* call of fetchNextPage issues another page request.
C9_LoadMoreStops == <>[]Stopped

C9_Witness ==
    /\ LastPageEmpty
    /\ Len(pages) > 2
    /\ idleClicks = MaxIdleClicks

\* C10: getNextPageParam returns allPages.length + 1 when the last page
\* holds a post and undefined when the last page is empty.
C10_NextPageParam ==
    nextPageParam.called =>
        nextPageParam.value =
            (IF Last(allPages) # <<>>
             THEN Param(Cardinality(DOMAIN allPages) + 1)
             ELSE NoParam)

C10_Witness ==
    /\ nextPageParam.called
    /\ nextPageParam.value = Param(3)
    /\ Len(allPages[1]) = 0

\* the posts of page p of the backend: (p - 1) * pageSize + 1 .. p * pageSize,
\* as far as the backend holds them
PostsOfPage(p) ==
    LET first == (p - 1) * pageSize + 1
        end == IF p * pageSize < numPosts THEN p * pageSize ELSE numPosts
    IN  IF end < first THEN <<>> ELSE [i \in 1..(end - first + 1) |-> first + i - 1]

\* the page number a request asks for
PageOf(req) == (req._start \div pageSize) + 1

\* the requests that ask again for the page the request before them asked for
Repeats == {i \in 2..Len(requests) : requests[i] = requests[i - 1]}

\* C11: the first request asks for page 1 at offset 0; every request for
\* page p asks for _start = (p - 1) * pageSize and _limit = pageSize; each
\* request asks for the page after the pages fetched so far, so the pages
\* fetched are pages 1, 2, 3, ... with no gap and no repeat (a page is
\* asked for again only after its request failed), and they hold adjacent,
\* non-overlapping ranges of posts.
C11_PagesInOrder ==
    /\ requests[1] = [_start |-> 0, _limit |-> pageSize]
    /\ \A i \in 1..Len(requests) :
          /\ requests[i]._limit = pageSize
          /\ requests[i]._start = (PageOf(requests[i]) - 1) * pageSize
    /\ \A i \in 2..Len(requests) :
          PageOf(requests[i]) - PageOf(requests[i - 1]) \in {0, 1}
    /\ Cardinality(Repeats) <= failures
    /\ PageOf(Last(requests)) = IF fetching = "idle" /\ ~queryError
                                 THEN Len(pages)
                                 ELSE Len(pages) + 1
    /\ \A k \in 1..Len(pages) : pages[k] = PostsOfPage(k)

C11_Witness ==
    /\ numPosts > 2 * pageSize
    /\ Len(pages) = 3
    /\ failures > 0
    /\ Len(pages[3]) > 0

\* the positions of a list whose task does not carry the id
Kept(list, taskId) == {i \in 1..Len(list) : list[i].id # taskId}

\* the n-th of those positions, counting from the front
NthKept(list, taskId, n) ==
    CHOOSE j \in Kept(list, taskId) :
        Cardinality({k \in Kept(list, taskId) : k <= j}) = n

UserAfter(seq) ==
    LET marks == {i \in 1..Len(seq) : seq[i].type \in {"LOGIN", "LOGOUT"}}
        latest == CHOOSE i \in marks : \A j \in marks : j <= i
    IN  IF marks = {} THEN ""
        ELSE IF seq[latest].type = "LOGIN" THEN seq[latest].userName ELSE ""

\* C13: the auth state starts as the empty string; after any sequence of
\* LOGIN / LOGOUT actions on a reducer, and of login / logout calls on the
\* store, user is the name of the most recent login when no logout followed
\* it and the empty string otherwise.
C13_UserIsLatestLogin ==
    /\ user = UserAfter(ops)
    /\ authStore.user = UserAfter(storeOps)
    /\ authStore.login = "login"
    /\ authStore.logout = "logout"

C13_Witness ==
    /\ Len(ops) = 3
    /\ ops[1].type = "LOGIN" /\ ops[2].type = "LOGOUT" /\ ops[3].type = "LOGIN"
    /\ ops[1].userName # ops[3].userName
    /\ user = ops[3].userName
    /\ Len(storeOps) = 2
    /\ storeOps[1].type = "LOGIN" /\ storeOps[2].type = "LOGOUT"
    /\ authStore.user = ""

\* how many increments follow the latest reset of a sequence of calls
IncrementsSinceReset(seq) ==
    LET resets == {i \in 1..Len(seq) : seq[i] = "reset"}
        latest == IF resets = {} THEN 0
                  ELSE CHOOSE i \in resets : \A j \in resets : j <= i
    IN  Len(seq) - latest

\* C14: the counter store starts with counter = 0; after any sequence of
\* increment and reset, counter is the number of increments since the last
\* reset and is never negative, and the other properties of the store are
\* the ones it was created with.
C14_CounterCountsIncrements ==
    /\ DOMAIN counterStore = {"counter", "increment", "reset"}
    /\ counterStore.counter = IncrementsSinceReset(counterOps)
    /\ counterStore.counter >= 0
    /\ counterStore.increment = "increment"
    /\ counterStore.reset = "reset"
    /\ counterOps = <<>> => counterStore.counter = 0

C14_Witness ==
    /\ Len(counterOps) >= 5
    /\ \E i \in 2..(Len(counterOps) - 2) :
          /\ counterOps[i] = "reset"
          /\ counterOps[i - 1] = "increment"
          /\ \A j \in (i + 1)..Len(counterOps) : counterOps[j] = "increment"
    /\ counterStore.counter >= 2

\* C15: whenever the posts query reports an error, PostList shows the
\* error's message instead of the list with its "load more" button.
C15_ErrorShowsFallback ==
    queryError => PostList = "error.message"

\* C16: in the TodoForm without optimistic update, the cached list changes
\* only in the step in which a mutation succeeds, and then it holds the
\* saved todo followed by the todos cached before; a failing mutation leaves
\* the cached list as it was; and while the mutation is in the error state
\* the form shows the message of its error.
C16_CacheChangesOnSuccessOnly ==
    [][/\ formCache' # formCache =>
             /\ addTodo.status = "loading"
             /\ addTodo'.status = "success"
             /\ formCache'.defined
             /\ Values(formCache').todos =
                   <<Todo(Anon, addTodo'.data.id, addTodo.variables.title,
                          addTodo.variables.completed, addTodo.variables.userId)>>
                   \o Values(formCache).todos
       /\ addTodo'.status = "success" /\ addTodo.status # "success" =>
             formCache' # formCache
       /\ addTodo'.status = "error" =>
             /\ Alert' \in ErrorMessages
             /\ addTodo.status = "loading" => formCache' = formCache
    ]_vars

\* a success on top of a cached list, then a failure that leaves it alone
C16_Witness ==
    /\ addTodo.status = "error"
    /\ Alert \in ErrorMessages
    /\ formCount.saved = 1
    /\ formCache.defined
    /\ Len(formCache.todos) = 1 + MaxCached
    /\ formCache.todos[1].id = FirstSavedId

\* C17: taskReducer and the setQueryData updaters never modify the array
\* they are given: every array that was read earlier (the previous tasks
\* list, the previousTodos snapshot, the cached list an updater got) still
\* holds what it held when it was read, whatever was dispatched or written
\* to the cache since.
C17_InputsNotModified ==
    \A r \in reads : heap[r.ref] = r.contents

\* the tasks state and the cache have both moved on from arrays read earlier
C17_Witness ==
    /\ \E r \in reads :
          /\ r.of = "tasks"
          /\ r.ref # tasksRef
          /\ heap[tasksRef] # r.contents
    /\ \E r \in reads :
          /\ r.of = "todos"
          /\ r.ref = pending.previousTodos
          /\ pending.active
          /\ cacheRef # r.ref
          /\ Len(heap[cacheRef]) = Len(r.contents) + 1

\* mutation m has been started and has not settled
Pending(m) == m <= nMut /\ pc[m] \notin {"success", "error"}

\* C18: while a mutation started from a form is pending, that form still
\* observes it and its Add button is disabled and reads "...loading"; once
\* the mutation a form observes has settled, in success or in error, the
\* button is enabled and reads "Add".
C18_ButtonFollowsMutation ==
    /\ \A m \in Mutations : Pending(m) =>
          \E f \in Forms :
              /\ cur[f] = m
              /\ Button(f) = [disabled |-> TRUE, label |-> "...loading"]
    /\ \A f \in Forms : cur[f] # 0 /\ ~Pending(cur[f]) =>
          Button(f) = [disabled |-> FALSE, label |-> "Add"]
    /\ \A f \in Forms : cur[f] = 0 =>
          Button(f) = [disabled |-> FALSE, label |-> "Add"]

\* one form waits for the backend while the other has seen its mutation settle
C18_Witness ==
    \E f, g \in Forms :
        /\ cur[f] # 0 /\ pc[cur[f]] = "sent"
        /\ cur[g] # 0 /\ pc[cur[g]] \in {"success", "error"}
        /\ Button(f).disabled
        /\ ~Button(g).disabled

\* page requests that have neither been answered nor failed
Outstanding == Len(requests) - Len(pages) - failures

\* C19: while a next-page fetch is in flight the "load more" button is
\* disabled, so at most one page request is outstanding at any time, and
\* no page of posts is in the list twice.
C19_OneNextPageFetch ==
    /\ Outstanding \in {0, 1}
    /\ Outstanding = 1 <=> fetching # "idle"
    /\ fetching = "next" => LoadMoreButton = [disabled |-> TRUE, label |-> "loading..."]
    /\ \A i, j \in 1..Len(pages) : i # j /\ pages[i] # <<>> => pages[i] # pages[j]

C19_Witness ==
    /\ Len(pages) >= 2
    /\ fetching = "next"
    /\ Outstanding = 1
    /\ LoadMoreButton.disabled

\* the page a configuration serves a URL with: the last element of the match
PageElement(version, url) ==
    LET chain == matchRoutes(version, url).chain IN chain[Len(chain)].element

\* C20: the nested configuration and the flat one serve every URL alike:
\* what a router built from one of them shows for the current URL ends with
\* the page the other configuration maps that URL to, and a URL one of them
\* does not match is not matched by the other either.
C20_NestedServesAsFlat ==
    routes \in {"flat", "nested"} /\ routeError # Thrown =>
        LET other == IF routes = "flat" THEN "nested" ELSE "flat"
        IN  /\ HasMatch(other, location) <=> HasMatch(routes, location)
            /\ HasMatch(other, location) =>
                  /\ routeError = NoError
                  /\ Last(view.elements) = PageElement(other, location)
            /\ ~HasMatch(other, location) =>
                  /\ routeError = NotFound
                  /\ view.elements = <<"DefaultErrorElement">>

C20_Witness ==
    /\ routes = "nested"
    /\ location = <<"users", "1">>
    /\ view.elements = <<"Layout", "UserDetailPage">>
    /\ PageElement("flat", location) = "UserDetailPage"

\* a cached list holds a todo with the fields of t
Holds(c, t) == c.defined /\ \E i \in 1..Len(c.todos) : SameFields(c.todos[i], t)

\* the todo of mutation k as the cache shows it: the saved one once onSuccess
\* of k has run, the optimistic one before
TodoOf(k) == IF pc[k] = "success" THEN result[k] ELSE variables[k]

\* C21: when mutations overlap, the rollback of a failed mutation takes out
\* only its own optimistic todo: a todo that a later mutation has put in the
\* cache, optimistic or reconciled, and that is in the cache when onError
\* runs, is still in the cache afterwards.
C21_RollbackKeepsOthers ==
    [][\A m \in Mutations :
         (pc[m] = "rejected" /\ pc'[m] = "error") =>
            \A k \in Mutations :
                (k > m /\ pc[k] \in {"sent", "resolved", "rejected", "success"}
                       /\ Holds(cache, TodoOf(k)))
                => Holds(cache', TodoOf(k))]_vars

\* mutation k has written its optimistic todo and has not settled
InFlight(k) == pc[k] \in {"sent", "resolved", "rejected"}

\* the positions at which two cached lists of one length differ by value
Changed(c, d) == {i \in 1..Len(c.todos) : ~SameFields(c.todos[i], d.todos[i])}

\* C22: when another mutation is pending too, onSuccess of a mutation changes
\* exactly one cache entry: its own optimistic todo becomes its saved todo;
\* the optimistic todos of the other pending mutations stay, also when two
\* of the submitted todos have the same field values.
C22_SuccessReplacesOwnOnly ==
    [][\A m \in Mutations :
         (pc[m] = "resolved" /\ pc'[m] = "success"
            /\ \E k \in Mutations : k # m /\ InFlight(k)) =>
            /\ cache'.defined
            /\ Len(cache'.todos) = Len(cache.todos)
            /\ Cardinality(Changed(cache, cache')) = 1
            /\ \A i \in Changed(cache, cache') :
                  /\ SameFields(cache.todos[i], variables[m])
                  /\ SameFields(cache'.todos[i], result[m])
            /\ \A k \in Mutations :
                  (k # m /\ InFlight(k) /\ Holds(cache, variables[k]))
                  => Holds(cache', variables[k])]_vars

\* C23: when nothing was cached as a mutation took its snapshot
\* (previousTodos is undefined) and the mutation fails, the cache after
\* onError has no list, or a list without the todo that was not saved.
C23_RollbackWithoutSnapshot ==
    [][\A m \in Mutations :
         (pc[m] = "rejected" /\ pc'[m] = "error"
            /\ context[m].set /\ ~context[m].previousTodos.defined) =>
            ~Holds(cache', variables[m])]_vars

\* C24: after any sequence of "Add Task" and "Delete" clicks the ids of the
\* tasks in the list are pairwise distinct, and a click on the Delete button
\* of a task in the list shortens the list by exactly one.
C24_TaskIdsDistinct ==
    tasks.defined =>
        /\ \A i, j \in 1..Len(tasks.list) :
              i # j => tasks.list[i].id # tasks.list[j].id
        /\ (/\ last.kind = "task"
            /\ last.type = "Delete"
            /\ \E i \in 1..Len(last.prevTasks) : last.prevTasks[i].id = last.taskId)
           => Len(tasks.list) = Len(last.prevTasks) - 1

\* taskId occurs in list
HasId(list, taskId) == \E i \in 1..Len(list) : list[i].id = taskId

\* the list the reducer of this version returns for a Delete of taskId
Deleted(list, taskId) ==
    taskReducerOf(taskCopy, list, [type |-> "Delete", taskId |-> taskId, task |-> Task(taskId)]).list

\* the list the reducer of this version returns for an ADD of task
Added(list, task) ==
    taskReducerOf(taskCopy, list, [type |-> "ADD", taskId |-> task.id, task |-> task]).list

\* C25: Delete is idempotent, a Delete of an id that is not in the list
\* returns the same list, and for a task whose id is not in the list an ADD
\* followed by a Delete of its id gives back the original list; in both
\* copies of taskReducer, on every list the app reaches and on every
\* dispatch it makes.
C25_DeleteIdempotent ==
    tasks.defined =>
        /\ \A taskId \in 1..MaxNow :
              /\ Deleted(Deleted(tasks.list, taskId), taskId) = Deleted(tasks.list, taskId)
              /\ ~HasId(tasks.list, taskId) =>
                    /\ Deleted(tasks.list, taskId) = tasks.list
                    /\ Deleted(Added(tasks.list, Task(taskId)), taskId) = tasks.list
        /\ (/\ last.kind = "task"
            /\ last.type = "Delete"
            /\ ~HasId(last.prevTasks, last.taskId))
           => tasks.list = last.prevTasks

\* a Delete of an id that is not in a list of one task was dispatched, and
\* the other id is still free for an ADD
C25_Witness ==
    /\ tasks.defined
    /\ last.kind = "task"
    /\ last.type = "Delete"
    /\ Len(last.prevTasks) = 1
    /\ ~HasId(last.prevTasks, last.taskId)
    /\ tasks.list = last.prevTasks
    /\ Deleted(Added(tasks.list, Task(last.taskId)), last.taskId) = tasks.list

\* logins and logouts alternate in seq, and a login comes first
Alternates(seq) ==
    \A i \in 1..Len(seq) :
        seq[i].type = IF i % 2 = 1 THEN "LOGIN" ELSE "LOGOUT"

\* C26: LoginStatus offers Login only while user is empty and Logout only
\* while user is not, so in every run of clicks on it logins and logouts
\* alternate, a login comes first, and user is the empty string or the one
\* name the component logs in with ("Mostafa" over the reducer, "John" over
\* the store).
C26_LoginLogoutAlternate ==
    /\ LoginStatus(user).link = (IF user = "" THEN "Login" ELSE "Logout")
    /\ LoginStatusOfStore(authStore.user).link =
          (IF authStore.user = "" THEN "Login" ELSE "Logout")
    /\ Alternates(ops)
    /\ Alternates(storeOps)
    /\ user \in {"", "Mostafa"}
    /\ authStore.user \in {"", "John"}
    /\ user = "" <=> Len(ops) % 2 = 0
    /\ authStore.user = "" <=> Len(storeOps) % 2 = 0

\* over the reducer: login, logout, login, logout; over the store: login,
\* logout, login
C26_Witness ==
    /\ Len(ops) = 4
    /\ user = ""
    /\ Len(storeOps) = 3
    /\ authStore.user = "John"
    /\ LoginStatus(user).link = "Login"
    /\ LoginStatusOfStore(authStore.user).link = "Logout"

====
